---- MODULE Spec2Model ----
(***************************************************************************)
(* A model of src/app.py: the job registry (JOBS), the worker that runs    *)
(* run_scrape_job over the generator iter_pushshift_ids_daily_anchored,    *)
(* and the retention sweep (cleanup).                                      *)
(*                                                                         *)
(* One job is followed from start_job to its end.  The upstream search     *)
(* service and the content API are the environment: each page request      *)
(* is answered by any page over a fixed archive of items (or by a failure  *)
(* of every mirror, or by a payload the generator cannot read) and each    *)
(* hydration either writes its rows or raises.                             *)
(*                                                                         *)
(* Spec takes a page request in one step; FetchSpec follows the mirror     *)
(* loop of one page request call by call; LiveSpec is Spec with the       *)
(* worker scheduled fairly.                                                *)
(*                                                                         *)
(* Time is counted in seconds.  The sizes of the source (a day of 86400    *)
(* seconds, caps of 1000 and 2500 items, pages of 500 items, a progress    *)
(* update every 10 posts) are scaled down so that every limit is reached.  *)
(***************************************************************************)
EXTENDS Integers, Sequences, FiniteSets, TLC

\* ------------------------------------------------------------- configuration
\* Scaled values of the CONFIG block of app.py.
LISTING_CAP_WITH_COMMENTS == 2
LISTING_CAP_POSTS_ONLY == 4
JOB_RETENTION_SECONDS == 3600
DAILY_CHUNK_SECONDS == 2
PUSHSHIFT_PAGE_SIZE == 2
PUSHSHIFT_MAX_RETRIES == 1
PUSHSHIFT_DAILY_ATTEMPTS == 2
\* The number of mirrors listed in PUSHSHIFT_BASE_URLS.
Mirrors == 2
\* run_scrape_job reports progress when count % PROGRESS_EVERY = 0.
PROGRESS_EVERY == 2

\* ------------------------------------------------------------------- bounds
\* Dates of a request are the days 1 .. MaxDay.
MaxDay == 2
\* The archive of the upstream service holds the items 1 .. MaxId.
MaxId == 4
\* A page of the upstream holds at most MaxPageLen records.
MaxPageLen == 2
\* A submission has at most MaxComments top-level comments.
MaxComments == 2
\* The clock advances TickSeconds at a time, at most MaxTicks times.
TickSeconds == 3601
MaxTicks == 1

\* Python's None, for an integer that is not set.
None == -1

\* The single job identifier start_job hands out.
JobId == 1

\* A calendar day (UTC) is one chunk long, as with the default configuration.
SecondsPerDay == DAILY_CHUNK_SECONDS

\* The archive: record 0 lacks its id; the items 1 .. MaxId carry their
\* created_utc, fixed per id, from the first second of day 1 upwards, some of
\* them sharing a second (the two oldest of day 1 do).
Ids == 0 .. MaxId
TsOf(i) == SecondsPerDay + ((2 * (i - 1)) \div 3)

\* Every page the upstream may answer with.
Pages == UNION {[1 .. n -> Ids] : n \in 0 .. MaxPageLen}

VARIABLES
    now,        \* time.time()
    JOBS,       \* the registry: job id -> dict
    file,       \* the job's artifact on disk
    pc,         \* where the worker of the job is
    loc,        \* locals of run_scrape_job
    gen,        \* locals of iter_pushshift_ids_daily_anchored
    params,     \* the last page request issued
    answer,     \* the answer of the upstream the generator is about to read
    yielded,    \* every (id, timestamp) the generator has yielded, in order
    history,    \* what the upstream has done so far in the run
    sweep,      \* where cleanup is
    fetch       \* the mirror loop of the page request in progress

vars ==
    <<now, JOBS, file, pc, loc, gen, params, answer, yielded, history, sweep, fetch>>

\* ------------------------------------------------------------------ helpers
Min(a, b) == IF a < b THEN a ELSE b
Max(a, b) == IF a > b THEN a ELSE b

\* dict.update
Update(d, u) ==
    [k \in DOMAIN d \cup DOMAIN u |-> IF k \in DOMAIN u THEN u[k] ELSE d[k]]

\* dict.get(k) of a field that holds a string
GetStr(d, k) == IF k \in DOMAIN d THEN d[k] ELSE ""

\* safe_set without the test of membership.
safe_setUntested(j, u) ==
    IF j \in DOMAIN JOBS THEN [JOBS EXCEPT ![j] = Update(@, u)] ELSE (j :> u) @@ JOBS

safe_set(j, u) ==
    IF j \in DOMAIN JOBS THEN [JOBS EXCEPT ![j] = Update(@, u)] ELSE JOBS

\* The history after a call of safe_set(j, ...).
Called(h, j) == [h EXCEPT !.dropped = @ \/ j \notin DOMAIN JOBS]

\* JOBS.pop(jid, None)
Popped(jid) == [j \in DOMAIN JOBS \ {jid} |-> JOBS[j]]

\* cleanup removes entries without taking JOBS_LOCK.  When its pop comes
\* between the test `j in JOBS` and the update `JOBS[j].update(u)` of a call
\* of safe_set, the update raises KeyError.  The sweep is then between its
\* scan and its pop; the statements the worker runs before the call read and
\* write nothing the scan reads, so the pop is taken in the step of the call.
Race(jid) ==
    /\ sweep = "pop"
    /\ jid \in DOMAIN JOBS
    /\ JOBS' = Popped(jid)
    /\ sweep' = "idle"

\* The history after such a call, whose KeyError is not handled...
Raced(h) == [h EXCEPT !.raced = TRUE]

\* ... or is handled by the except clause of run_scrape_job, whose own call of
\* safe_set finds no entry.
RacedAndFailed(h) == [h EXCEPT !.raced = TRUE, !.dropped = TRUE]

\* datetime.date() of a timestamp: its day number.
DateOf(ts) == IF ts = None THEN None ELSE ts \div SecondsPerDay

\* parse_date(start_s).timestamp() and the end of the day end_s, in seconds.
MinTs(start_day) == start_day * SecondsPerDay
MaxTs(end_day) == (end_day + 1) * SecondsPerDay - 1

\* ---------------------------------------------------------------- generator
\* DayStart reaching one second further back.
DayStartLong(after_ts, current_end_ts) ==
    Max(after_ts, current_end_ts - DAILY_CHUNK_SECONDS)

DayStart(after_ts, current_end_ts) ==
    Max(after_ts, current_end_ts - DAILY_CHUNK_SECONDS + 1)

\* PageSize without the rest of the cap.
PageSizeUncapped(max_results, emitted) == PUSHSHIFT_PAGE_SIZE

PageSize(max_results, emitted) == Min(PUSHSHIFT_PAGE_SIZE, max_results - emitted)

\* Skipped without the test of day_fetched_ids.
SkippedSeenUnchecked(d, g) ==
    \/ d = 0
    \/ TsOf(d) = 0
    \/ TsOf(d) < g.day_start_ts
    \/ TsOf(d) > g.current_end_ts

\* Skipped without the test of the lower end of the chunk.
SkippedStartUnchecked(d, g) ==
    \/ d = 0
    \/ TsOf(d) = 0
    \/ TsOf(d) > g.current_end_ts
    \/ d \in g.day_fetched_ids

\* The records of a page the generator passes over: a missing id or timestamp,
\* a timestamp outside the chunk, an id already yielded in this attempt.
Skipped(d, g) ==
    \/ d = 0
    \/ TsOf(d) = 0
    \/ TsOf(d) < g.day_start_ts
    \/ TsOf(d) > g.current_end_ts
    \/ d \in g.day_fetched_ids

\* The for loop over a page: the records it yields, in order, when none of
\* its yields reaches the cap.  The tests of a record read the bounds of the
\* chunk, fixed while the page is processed, and day_fetched_ids, to which
\* every yield adds its id.
RECURSIVE Yields(_, _)
Yields(data, g) ==
    IF data = <<>> THEN <<>>
    ELSE IF Skipped(Head(data), g) THEN Yields(Tail(data), g)
    ELSE <<Head(data)>> \o
         Yields(Tail(data), [g EXCEPT !.day_fetched_ids = @ \cup {Head(data)}])

\* Progress without the limit of 99.
ProgressUnclamped(count, cap) == (count * 100) \div cap

\* min(99, int(count / CAP * 100))
Progress(count, cap) == Min(99, (count * 100) \div cap)

Cap(include_comments) ==
    IF include_comments THEN LISTING_CAP_WITH_COMMENTS ELSE LISTING_CAP_POSTS_ONLY

NoGen ==
    [after_ts |-> 0, before_ts |-> 0, max_results |-> 0, emitted |-> 0,
     current_end_ts |-> 0, day_start_ts |-> 0, empty_days |-> 0,
     total_days |-> 0, cursor_before_ts |-> 0,
     day_successful_data_fetch |-> FALSE, attempt |-> 0, min_seen_ts |-> None,
     day_fetched_ids |-> {}, data |-> <<>>, new_data_emitted |-> 0]

NoLoc ==
    [include_comments |-> FALSE, start_day |-> 0, end_day |-> 0, CAP |-> 0,
     count |-> 0, cap_hit |-> FALSE, newest_dt_included |-> None,
     oldest_dt_included |-> None, empty_days |-> 0, total_days |-> 0,
     draining |-> FALSE]

NoFile == [exists |-> FALSE, header |-> FALSE, rows |-> <<>>, closed |-> FALSE]

NoParams == [after |-> 0, before |-> 0, size |-> 0, emitted |-> 0]

\* Of an answer: how many records it holds, how many of them lie outside the
\* requested window, and how many repeat an id that an earlier record of the
\* page carries or that the run has yielded already.
NoAnswer == [len |-> 0, outside |-> 0, repeated |-> 0]

\* Of the answers so far: whether each listed its records from newest to
\* oldest with none newer than the `before` it was asked for, and whether
\* every request so far has failed on every mirror; whether some call of
\* safe_set has found no entry to update; and whether the sweep has removed
\* the entry while a call of safe_set, holding JOBS_LOCK, was about to update
\* it; and the chunks [day_start_ts, current_end_ts] the day loop has begun,
\* in order; and whether every request so far was answered as a reliable
\* upstream answers it.
NoHistory ==
    [in_order |-> TRUE, all_failed |-> TRUE, dropped |-> FALSE, raced |-> FALSE,
     chunks |-> <<>>, reliable |-> TRUE]

\* The items of the archive a request asks for.
Asked(r) == {i \in 1 .. MaxId : r.after <= TsOf(i) /\ TsOf(i) <= r.before}

\* The page answers the request r as a reliable upstream does: it lists the
\* newest r.size items of the archive with a timestamp in [after, before], or
\* all of them when they are fewer, each once, from newest to oldest.
Reliable(page, r) ==
    LET listed == {page[k] : k \in 1 .. Len(page)}
    IN  /\ listed \subseteq Asked(r)
        /\ Cardinality(listed) = Len(page)
        /\ Len(page) = Min(r.size, Cardinality(Asked(r)))
        /\ \A k, n \in 1 .. Len(page) : k < n => TsOf(page[k]) >= TsOf(page[n])
        /\ \A i \in Asked(r) \ listed : \A k \in 1 .. Len(page) : TsOf(i) <= TsOf(page[k])

InOrder(page, before) ==
    /\ \A k \in 1 .. Len(page) : TsOf(page[k]) <= before
    /\ \A k, m \in 1 .. Len(page) : k < m => TsOf(page[k]) >= TsOf(page[m])

YieldedIds == {yielded[i][1] : i \in 1 .. Len(yielded)}

Answer(page) ==
    [len |-> Len(page),
     outside |-> Cardinality({k \in 1 .. Len(page) :
                     TsOf(page[k]) < gen.after_ts \/ TsOf(page[k]) > gen.before_ts}),
     repeated |-> Cardinality({k \in 1 .. Len(page) :
                     \/ page[k] \in YieldedIds
                     \/ \E m \in 1 .. k - 1 : page[m] = page[k]})]

\* The mirror loop of a page request: the index of the mirror `base`, the
\* loop variable `attempt` of _ps_get_json, the answer j (got: j is not None),
\* whether the loop is left, and the calls of session.get made so far, each
\* with its mirror and its outcome.
NoFetch ==
    [base |-> 0, attempt |-> 0, got |-> FALSE, j |-> <<>>, left |-> FALSE,
     calls |-> <<>>]

Init ==
    /\ now = 0
    /\ JOBS = <<>>
    /\ file = NoFile
    /\ pc = "none"
    /\ loc = NoLoc
    /\ gen = NoGen
    /\ params = NoParams
    /\ answer = NoAnswer
    /\ yielded = <<>>
    /\ history = NoHistory
    /\ sweep = "idle"
    /\ fetch = NoFetch

\* ------------------------------------------------------------------ start_job
\* POST /start-job with valid dates: a new registry entry, handed to the pool.
StartJob ==
    /\ pc = "none"
    /\ JobId \notin DOMAIN JOBS
    /\ \E start_day \in 1 .. MaxDay, end_day \in 1 .. MaxDay, ic \in BOOLEAN :
        /\ start_day <= end_day
        /\ loc' = [NoLoc EXCEPT !.include_comments = ic,
                                !.start_day = start_day, !.end_day = end_day]
    /\ JOBS' = (JobId :> [state |-> "queued", progress |-> 0,
                          message |-> <<"Queued">>, created_at |-> now])
    /\ pc' = "queued"
    /\ UNCHANGED <<fetch, now, file, gen, params, answer, yielded, history, sweep>>

\* ------------------------------------------------------------- run_scrape_job
\* Dispatch without the change of state.
DispatchStateUnset ==
    /\ pc = "queued"
    /\ JOBS' = safe_set(JobId, [message |-> <<"Starting">>])
    /\ history' = Called(history, JobId)
    /\ pc' = "setup"
    /\ UNCHANGED <<fetch, now, file, loc, gen, params, answer, yielded, sweep>>

\* The pool runs the job: its first statement.
Dispatch ==
    /\ pc = "queued"
    /\ JOBS' = safe_set(JobId, [state |-> "running", message |-> <<"Starting">>])
    /\ history' = Called(history, JobId)
    /\ pc' = "setup"
    /\ UNCHANGED <<fetch, now, file, loc, gen, params, answer, yielded, sweep>>

\* The first statement raises KeyError: the exception leaves run_scrape_job.
DispatchRaced ==
    /\ pc = "queued"
    /\ Race(JobId)
    /\ history' = Raced(history)
    /\ pc' = "raised"
    /\ UNCHANGED <<fetch, now, file, loc, gen, params, answer, yielded>>

\* The except clause of run_scrape_job.
Failed(cause) == safe_set(JobId, [state |-> "error", message |-> <<"failed", cause>>])

\* Dates, credentials, the artifact with its header, the generator object.
Setup ==
    /\ pc = "setup"
    /\ MaxTs(loc.end_day) >= MinTs(loc.start_day)
    /\ file' = [exists |-> TRUE, header |-> TRUE, rows |-> <<>>, closed |-> FALSE]
    /\ loc' = [loc EXCEPT !.CAP = Cap(loc.include_comments)]
    /\ JOBS' = safe_set(JobId, [message |-> <<"Scraping">>])
    /\ gen' = [NoGen EXCEPT !.after_ts = MinTs(loc.start_day),
                            !.before_ts = MaxTs(loc.end_day),
                            !.max_results = Cap(loc.include_comments),
                            !.current_end_ts = MaxTs(loc.end_day)]
    /\ history' = Called(history, JobId)
    /\ pc' = "chunk"
    /\ UNCHANGED <<fetch, now, params, answer, yielded, sweep>>

\* The artifact is open with its header when safe_set raises KeyError.
SetupRaced ==
    /\ pc = "setup"
    /\ MaxTs(loc.end_day) >= MinTs(loc.start_day)
    /\ Race(JobId)
    /\ file' = [exists |-> TRUE, header |-> TRUE, rows |-> <<>>, closed |-> FALSE]
    /\ loc' = [loc EXCEPT !.CAP = Cap(loc.include_comments)]
    /\ history' = RacedAndFailed(history)
    /\ pc' = "error"
    /\ UNCHANGED <<fetch, now, gen, params, answer, yielded>>

\* The call of safe_set in the except clause raises KeyError.
SetupFailsRaced ==
    /\ pc = "setup"
    /\ Race(JobId)
    /\ history' = Raced(history)
    /\ pc' = "raised"
    /\ UNCHANGED <<fetch, now, file, loc, gen, params, answer, yielded>>

\* make_reddit or open raises (or the range is inverted): no artifact.
SetupFails ==
    /\ pc = "setup"
    /\ JOBS' = Failed("setup")
    /\ history' = Called(history, JobId)
    /\ pc' = "error"
    /\ UNCHANGED <<fetch, now, file, loc, gen, params, answer, yielded, sweep>>

\* The generator ends with `value` (<<>> for a bare return).  The for loop
\* drops the value; the drain loop after a break keeps a 2-tuple.
Returned(l, value) ==
    IF l.draining /\ Len(value) = 2
    THEN [l EXCEPT !.empty_days = value[1], !.total_days = value[2]]
    ELSE l

\* The generator has returned: its frame is gone, the window, the count of
\* its yields and its summary are kept for reference.
Ended(g) ==
    [NoGen EXCEPT !.after_ts = g.after_ts, !.before_ts = g.before_ts,
                  !.max_results = g.max_results, !.emitted = g.emitted,
                  !.empty_days = g.empty_days, !.total_days = g.total_days]

\* ChunkBegin without the assignment of the cursor.
ChunkBeginCursorKept ==
    /\ pc = "chunk"
    /\ IF gen.current_end_ts >= gen.after_ts /\ gen.emitted < gen.max_results
       THEN /\ gen' = [gen EXCEPT
                    !.day_start_ts = DayStart(gen.after_ts, gen.current_end_ts),
                    !.total_days = @ + 1,
                    !.day_successful_data_fetch = FALSE,
                    !.attempt = 0]
            /\ history' = [history EXCEPT !.chunks = Append(@,
                    <<DayStart(gen.after_ts, gen.current_end_ts), gen.current_end_ts>>)]
            /\ pc' = "attempt"
            /\ loc' = loc
            /\ params' = params
       ELSE /\ loc' = Returned(loc, <<gen.empty_days, gen.total_days>>)
            /\ history' = history
            /\ pc' = "finish"
            /\ gen' = Ended(gen)
            /\ params' = NoParams
    /\ UNCHANGED <<fetch, now, JOBS, file, answer, yielded, sweep>>

\* The head of the day loop.
ChunkBegin ==
    /\ pc = "chunk"
    /\ IF gen.current_end_ts >= gen.after_ts /\ gen.emitted < gen.max_results
       THEN /\ gen' = [gen EXCEPT
                    !.day_start_ts = DayStart(gen.after_ts, gen.current_end_ts),
                    !.total_days = @ + 1,
                    !.cursor_before_ts = gen.current_end_ts,
                    !.day_successful_data_fetch = FALSE,
                    !.attempt = 0]
            /\ history' = [history EXCEPT !.chunks = Append(@,
                    <<DayStart(gen.after_ts, gen.current_end_ts), gen.current_end_ts>>)]
            /\ pc' = "attempt"
            /\ loc' = loc
            /\ params' = params
       ELSE /\ loc' = Returned(loc, <<gen.empty_days, gen.total_days>>)
            /\ history' = history
            /\ pc' = "finish"
            /\ gen' = Ended(gen)
            /\ params' = NoParams
    /\ UNCHANGED <<fetch, now, JOBS, file, answer, yielded, sweep>>

\* The head of the attempt loop.
AttemptBegin ==
    /\ pc = "attempt"
    /\ IF gen.attempt < PUSHSHIFT_DAILY_ATTEMPTS
       THEN /\ gen' = [gen EXCEPT !.min_seen_ts = None, !.day_fetched_ids = {}]
            /\ pc' = "page"
       ELSE /\ gen' = gen
            /\ pc' = "chunkEnd"
    /\ UNCHANGED <<fetch, now, JOBS, file, loc, params, answer, yielded, history, sweep>>

Paging == gen.emitted < gen.max_results /\ gen.cursor_before_ts >= gen.day_start_ts

Request ==
    [after |-> gen.day_start_ts, before |-> gen.cursor_before_ts,
     size |-> PageSize(gen.max_results, gen.emitted), emitted |-> gen.emitted]

\* A page request answered by some mirror with a non-empty page; gen.data
\* keeps the records of the page that are still to be yielded.
PageArrives ==
    /\ pc = "page"
    /\ Paging
    /\ params' = Request
    /\ \E page \in Pages \ {<<>>} :
        /\ gen' = [gen EXCEPT !.data = Yields(page, gen), !.new_data_emitted = 0]
        /\ answer' = Answer(page)
        /\ history' = [history EXCEPT
                            !.in_order = @ /\ InOrder(page, gen.cursor_before_ts),
                            !.all_failed = FALSE,
                            !.reliable = @ /\ Reliable(page, Request)]
    /\ pc' = "item"
    /\ UNCHANGED <<fetch, now, JOBS, file, loc, yielded, sweep>>

\* PageFails with the failure of the last mirror left uncaught.
PageFailsUncaught ==
    /\ pc = "page"
    /\ Paging
    /\ params' = Request
    /\ answer' = NoAnswer
    /\ JOBS' = safe_set(JobId, [state |-> "error", message |-> <<"failed", "mirrors">>])
    /\ history' = Called([history EXCEPT !.reliable = FALSE], JobId)
    /\ pc' = "error"
    /\ UNCHANGED <<fetch, now, file, loc, gen, yielded, sweep>>

\* Every mirror failed after all its retries: j stays None and the attempt
\* stops paging.
PageFails ==
    /\ pc = "page"
    /\ Paging
    /\ params' = Request
    /\ answer' = NoAnswer
    /\ history' = [history EXCEPT !.reliable = FALSE]
    /\ pc' = "attemptEnd"
    /\ UNCHANGED <<fetch, now, JOBS, file, loc, gen, yielded, sweep>>

\* A mirror answers with no data: the attempt stops paging.
PageEmpty ==
    /\ pc = "page"
    /\ Paging
    /\ params' = Request
    /\ answer' = NoAnswer
    /\ history' = [history EXCEPT !.all_failed = FALSE,
                                  !.reliable = @ /\ Reliable(<<>>, Request)]
    /\ pc' = "attemptEnd"
    /\ UNCHANGED <<fetch, now, JOBS, file, loc, gen, yielded, sweep>>

\* The answer is not of the expected shape: the generator raises, and the
\* exception leaves the for loop of run_scrape_job.
PageUnreadable ==
    /\ pc = "page"
    /\ Paging
    /\ params' = Request
    /\ answer' = NoAnswer
    /\ history' = Called([history EXCEPT !.all_failed = FALSE,
                                         !.reliable = FALSE], JobId)
    /\ JOBS' = Failed("payload")
    /\ pc' = "error"
    /\ UNCHANGED <<fetch, now, file, loc, gen, yielded, sweep>>

\* The call of safe_set in the except clause raises KeyError.
PageUnreadableRaced ==
    /\ pc = "page"
    /\ Paging
    /\ Race(JobId)
    /\ params' = Request
    /\ answer' = NoAnswer
    /\ history' = Raced([history EXCEPT !.all_failed = FALSE, !.reliable = FALSE])
    /\ pc' = "raised"
    /\ UNCHANGED <<fetch, now, file, loc, gen, yielded>>

\* The condition of the pagination loop is false.
PagingEnds ==
    /\ pc = "page"
    /\ ~Paging
    /\ pc' = "attemptEnd"
    /\ UNCHANGED <<fetch, now, JOBS, file, loc, gen, params, answer, yielded, history, sweep>>

\* The cursor left at the upper end of the chunk.
NextCursorAtChunkEnd(g) == g.current_end_ts

\* The cursor moves to just before the oldest post seen in the attempt.
NextCursor(g) == g.min_seen_ts - 1

\* The page is processed to its end: lines 153-157.
PageDone ==
    /\ pc = "item"
    /\ gen.data = <<>>
    /\ IF gen.min_seen_ts = None \/ gen.new_data_emitted = 0
       THEN /\ gen' = gen
            /\ pc' = "attemptEnd"
       ELSE /\ gen' = [gen EXCEPT !.cursor_before_ts = NextCursor(gen)]
            /\ pc' = "page"
    /\ answer' = NoAnswer
    /\ UNCHANGED <<fetch, now, JOBS, file, loc, params, yielded, history, sweep>>

\* The generator after its yield of (sid, cu): lines 143-148.
Resumed(g, sid, cu) ==
    [g EXCEPT !.data = Tail(@),
              !.day_fetched_ids = @ \cup {sid},
              !.emitted = @ + 1,
              !.new_data_emitted = @ + 1,
              !.day_successful_data_fetch = TRUE,
              !.min_seen_ts = IF @ = None \/ cu < @ THEN cu ELSE @]

\* The generator yields the next record of the page to the for loop, whose
\* body leaves the locals l, and is resumed by the next call of next(gen),
\* made by the for loop or, after a break, by the drain loop: line 149.
YieldAndResume(l) ==
    LET sid == Head(gen.data)
        g == Resumed(gen, sid, TsOf(sid))
    IN  /\ yielded' = Append(yielded, <<sid, TsOf(sid)>>)
        /\ answer' = NoAnswer
        /\ IF g.emitted >= g.max_results
           THEN /\ gen' = Ended(g)
                /\ params' = NoParams
                /\ loc' = Returned(l, <<>>)
                /\ pc' = "finish"
           ELSE /\ gen' = g
                /\ params' = params
                /\ loc' = l
                /\ pc' = "item"

\* newest_dt_included / oldest_dt_included, lines 280-281.
Tracked(l, cu) ==
    [l EXCEPT !.newest_dt_included = IF @ = None THEN cu ELSE @,
              !.oldest_dt_included = cu]

Rows(sid, n) == [i \in 1 .. n |-> sid]

\* count += 1 and the cap test, lines 285-291.
Counted(l) ==
    [l EXCEPT !.count = @ + 1,
              !.cap_hit = @ \/ (l.count + 1 >= l.CAP),
              !.draining = l.count + 1 >= l.CAP]

\* One id is yielded and its rows are written.
Hydrate ==
    /\ pc = "item"
    /\ gen.data # <<>>
    /\ ~loc.draining
    /\ \E n \in 1 .. MaxComments :
        /\ loc.include_comments \/ n = 1
        /\ file' = [file EXCEPT !.rows = @ \o Rows(Head(gen.data), n)]
    /\ JOBS' = IF (loc.count + 1) % PROGRESS_EVERY = 0
               THEN safe_set(JobId, [progress |-> Progress(loc.count + 1, loc.CAP),
                                     message |-> <<"Scraped", loc.count + 1>>])
               ELSE JOBS
    /\ history' = IF (loc.count + 1) % PROGRESS_EVERY = 0
                  THEN Called(history, JobId)
                  ELSE history
    /\ YieldAndResume(Counted(Tracked(loc, TsOf(Head(gen.data)))))
    /\ UNCHANGED <<fetch, now, sweep>>

\* The rows are written and counted when the progress update raises
\* KeyError, which the loop body catches as it does a failed fetch: the test
\* of the cap, line 291, is passed over.
HydrateRaced ==
    /\ pc = "item"
    /\ gen.data # <<>>
    /\ ~loc.draining
    /\ (loc.count + 1) % PROGRESS_EVERY = 0
    /\ Race(JobId)
    /\ \E n \in 1 .. MaxComments :
        /\ loc.include_comments \/ n = 1
        /\ file' = [file EXCEPT !.rows = @ \o Rows(Head(gen.data), n)]
    /\ history' = Raced(history)
    /\ YieldAndResume([Tracked(loc, TsOf(Head(gen.data))) EXCEPT !.count = @ + 1])
    /\ UNCHANGED <<fetch, now>>

\* HydrateFails with the exception of the row writer left uncaught by the
\* loop body.
HydrateFailsUncaught ==
    /\ pc = "item"
    /\ gen.data # <<>>
    /\ ~loc.draining
    /\ loc' = Tracked(loc, TsOf(Head(gen.data)))
    /\ yielded' = Append(yielded, <<Head(gen.data), TsOf(Head(gen.data))>>)
    /\ JOBS' = Failed("hydration")
    /\ history' = Called(history, JobId)
    /\ pc' = "error"
    /\ UNCHANGED <<fetch, now, file, gen, params, answer, sweep>>

\* One id is yielded and the row writer raises on fetching the submission:
\* the id is logged and skipped.
HydrateFails ==
    /\ pc = "item"
    /\ gen.data # <<>>
    /\ ~loc.draining
    /\ YieldAndResume(Tracked(loc, TsOf(Head(gen.data))))
    /\ UNCHANGED <<fetch, now, JOBS, file, history, sweep>>

\* AttemptEnd with the count of attempts left as it is.
AttemptEndUncounted ==
    /\ pc = "attemptEnd"
    /\ IF gen.day_successful_data_fetch
       THEN /\ gen' = gen
            /\ pc' = "chunkEnd"
       ELSE /\ gen' = gen
            /\ pc' = "attempt"
    /\ UNCHANGED <<fetch, now, JOBS, file, loc, params, answer, yielded, history, sweep>>

\* After the pagination loop of one attempt.
AttemptEnd ==
    /\ pc = "attemptEnd"
    /\ IF gen.day_successful_data_fetch
       THEN /\ gen' = gen
            /\ pc' = "chunkEnd"
       ELSE /\ gen' = [gen EXCEPT !.attempt = @ + 1]
            /\ pc' = "attempt"
    /\ UNCHANGED <<fetch, now, JOBS, file, loc, params, answer, yielded, history, sweep>>

\* After all attempts of one chunk.  The locals of the chunk, all assigned
\* again before they are read, are cleared.
ChunkEnd ==
    /\ pc = "chunkEnd"
    /\ gen' = [gen EXCEPT
            !.empty_days = IF gen.day_successful_data_fetch THEN @ ELSE @ + 1,
            !.current_end_ts = gen.day_start_ts - 1,
            !.day_start_ts = NoGen.day_start_ts,
            !.cursor_before_ts = NoGen.cursor_before_ts,
            !.day_successful_data_fetch = NoGen.day_successful_data_fetch,
            !.attempt = NoGen.attempt,
            !.min_seen_ts = NoGen.min_seen_ts,
            !.day_fetched_ids = NoGen.day_fetched_ids,
            !.new_data_emitted = NoGen.new_data_emitted]
    /\ pc' = "chunk"
    /\ UNCHANGED <<fetch, now, JOBS, file, loc, params, answer, yielded, history, sweep>>

\* The artifact is closed and the job reported done.
Finish ==
    /\ pc = "finish"
    /\ file' = [file EXCEPT !.closed = TRUE]
    /\ JOBS' = safe_set(JobId,
            [state |-> "done", progress |-> 100,
             message |-> <<"Finished", loc.count, loc.empty_days, loc.total_days>>,
             filename |-> "fn", count |-> loc.count,
             from_date |-> DateOf(loc.newest_dt_included),
             to_date |-> DateOf(loc.oldest_dt_included),
             cap_hit |-> loc.cap_hit])
    /\ history' = Called(history, JobId)
    /\ pc' = "done"
    /\ UNCHANGED <<fetch, now, loc, gen, params, answer, yielded, sweep>>

\* The artifact is closed when the last update raises KeyError.
FinishRaced ==
    /\ pc = "finish"
    /\ Race(JobId)
    /\ file' = [file EXCEPT !.closed = TRUE]
    /\ history' = RacedAndFailed(history)
    /\ pc' = "error"
    /\ UNCHANGED <<fetch, now, loc, gen, params, answer, yielded>>

\* -------------------------------------------------------------------- cleanup
\* Time passes.  Only cleanup reads the clock, and only against the
\* created_at of a listed entry: the clock is followed from the creation of
\* the job until the job is older than the retention.
Tick ==
    /\ pc # "none"
    /\ JobId \in DOMAIN JOBS
    /\ now - JOBS[JobId].created_at <= JOB_RETENTION_SECONDS
    /\ now < MaxTicks * TickSeconds
    /\ now' = now + TickSeconds
    /\ UNCHANGED <<fetch, JOBS, file, pc, loc, gen, params, answer, yielded, history, sweep>>

\* The sweep finds the job too old and removes the file its entry names.
CleanupScan ==
    /\ sweep = "idle"
    /\ JobId \in DOMAIN JOBS
    /\ now - JOBS[JobId].created_at > JOB_RETENTION_SECONDS
    /\ file' = IF GetStr(JOBS[JobId], "filename") # "" /\ file.exists
               THEN [file EXCEPT !.exists = FALSE]
               ELSE file
    /\ sweep' = "pop"
    /\ UNCHANGED <<fetch, now, JOBS, pc, loc, gen, params, answer, yielded, history>>

\* JOBS.pop(jid, None)
CleanupPop ==
    /\ sweep = "pop"
    /\ JOBS' = Popped(JobId)
    /\ sweep' = "idle"
    /\ UNCHANGED <<fetch, now, file, pc, loc, gen, params, answer, yielded, history>>

Next ==
    \/ StartJob
    \/ Dispatch
    \/ Setup
    \/ SetupFails
    \/ ChunkBegin
    \/ AttemptBegin
    \/ PageArrives
    \/ PageFails
    \/ PageEmpty
    \/ PageUnreadable
    \/ PagingEnds
    \/ PageDone
    \/ Hydrate
    \/ HydrateFails
    \/ AttemptEnd
    \/ ChunkEnd
    \/ Finish
    \/ Tick
    \/ CleanupScan
    \/ CleanupPop
    \/ DispatchRaced
    \/ SetupRaced
    \/ SetupFailsRaced
    \/ PageUnreadableRaced
    \/ HydrateRaced
    \/ FinishRaced

Spec == Init /\ [][Next]_vars

\* The steps of the worker thread of the job.
Worker ==
    \/ Dispatch
    \/ Setup
    \/ SetupFails
    \/ ChunkBegin
    \/ AttemptBegin
    \/ PageArrives
    \/ PageFails
    \/ PageEmpty
    \/ PageUnreadable
    \/ PagingEnds
    \/ PageDone
    \/ Hydrate
    \/ HydrateFails
    \/ AttemptEnd
    \/ ChunkEnd
    \/ Finish
    \/ DispatchRaced
    \/ SetupRaced
    \/ SetupFailsRaced
    \/ PageUnreadableRaced
    \/ HydrateRaced
    \/ FinishRaced

\* The pool runs the worker, and each of its waits (a request with its
\* timeout, a sleep, a fetch of the content API) comes to an end: the worker
\* takes a step whenever it has one.
LiveSpec == Init /\ [][Next]_vars /\ WF_vars(Worker)

\* ------------------------------------------------------------ one page request
\* The mirror loop of lines 119-125 with _ps_get_json, followed step by step
\* for the first page request of a job.  Spec takes the loop in one step
\* (PageArrives, PageEmpty, PageFails).

PUSHSHIFT_BASE_URLS == 1 .. Mirrors

\* The generator has built the params of the first request of a job over the
\* days start_day .. end_day and enters the mirror loop.
FetchInit ==
    \E start_day \in 1 .. MaxDay, end_day \in 1 .. MaxDay, ic \in BOOLEAN :
        /\ start_day <= end_day
        /\ now = 0
        /\ JOBS = (JobId :> [state |-> "running", progress |-> 0,
                             message |-> <<"Scraping">>, created_at |-> 0])
        /\ file = [exists |-> TRUE, header |-> TRUE, rows |-> <<>>, closed |-> FALSE]
        /\ pc = "page"
        /\ loc = [NoLoc EXCEPT !.include_comments = ic, !.start_day = start_day,
                               !.end_day = end_day, !.CAP = Cap(ic)]
        /\ gen = [NoGen EXCEPT
                    !.after_ts = MinTs(start_day),
                    !.before_ts = MaxTs(end_day),
                    !.max_results = Cap(ic),
                    !.current_end_ts = MaxTs(end_day),
                    !.day_start_ts = DayStart(MinTs(start_day), MaxTs(end_day)),
                    !.total_days = 1,
                    !.cursor_before_ts = MaxTs(end_day)]
        /\ params = Request
        /\ answer = NoAnswer
        /\ yielded = <<>>
        /\ history = [NoHistory EXCEPT !.chunks =
                        <<<<DayStart(MinTs(start_day), MaxTs(end_day)), MaxTs(end_day)>>>>]
        /\ sweep = "idle"
        /\ fetch = [NoFetch EXCEPT !.base = 1]

Fetching == pc = "page" /\ ~fetch.left /\ fetch.base \in PUSHSHIFT_BASE_URLS

\* _ps_get_json raises: the mirror loop goes on with the next mirror, and is
\* left with j = None after the last one.
NextMirror(f) ==
    [f EXCEPT !.base = @ + 1, !.attempt = 0, !.left = (f.base + 1 > Mirrors)]

\* session.get answers and resp.json() is returned: the mirror loop breaks.
HttpOk ==
    /\ Fetching
    /\ \E page \in Pages :
        fetch' = [fetch EXCEPT !.got = TRUE, !.j = page, !.left = TRUE,
                               !.calls = Append(@, <<fetch.base, "ok", page>>)]
    /\ UNCHANGED <<now, JOBS, file, pc, loc, gen, params, answer, yielded, history, sweep>>

\* HttpError giving up one failure later.
HttpErrorOneMore ==
    /\ Fetching
    /\ LET f == [fetch EXCEPT !.calls = Append(@, <<fetch.base, "error", <<>>>>)]
       IN  fetch' = IF fetch.attempt > PUSHSHIFT_MAX_RETRIES
                    THEN NextMirror(f)
                    ELSE [f EXCEPT !.attempt = @ + 1]
    /\ UNCHANGED <<now, JOBS, file, pc, loc, gen, params, answer, yielded, history, sweep>>

\* A RequestException (no connection, a timeout, a bad status): after the
\* last attempt _ps_get_json raises, before it sleeps and tries again.
HttpError ==
    /\ Fetching
    /\ LET f == [fetch EXCEPT !.calls = Append(@, <<fetch.base, "error", <<>>>>)]
       IN  fetch' = IF fetch.attempt >= PUSHSHIFT_MAX_RETRIES
                    THEN NextMirror(f)
                    ELSE [f EXCEPT !.attempt = @ + 1]
    /\ UNCHANGED <<now, JOBS, file, pc, loc, gen, params, answer, yielded, history, sweep>>

\* Any other exception: _ps_get_json logs it and raises at once.
HttpUnexpected ==
    /\ Fetching
    /\ fetch' = NextMirror([fetch EXCEPT
                    !.calls = Append(@, <<fetch.base, "unexpected", <<>>>>)])
    /\ UNCHANGED <<now, JOBS, file, pc, loc, gen, params, answer, yielded, history, sweep>>

\* After the mirror loop: no answer or no data ends the attempt, a page is
\* processed.
FetchEnds ==
    /\ pc = "page"
    /\ fetch.left
    /\ IF fetch.got /\ fetch.j # <<>>
       THEN /\ gen' = [gen EXCEPT !.data = Yields(fetch.j, gen), !.new_data_emitted = 0]
            /\ answer' = Answer(fetch.j)
            /\ history' = [history EXCEPT
                            !.in_order = @ /\ InOrder(fetch.j, gen.cursor_before_ts),
                            !.all_failed = FALSE,
                            !.reliable = @ /\ Reliable(fetch.j, params)]
            /\ pc' = "item"
       ELSE /\ gen' = gen
            /\ answer' = NoAnswer
            /\ history' = [history EXCEPT
                            !.all_failed = @ /\ ~fetch.got,
                            !.reliable = @ /\ fetch.got /\ Reliable(<<>>, params)]
            /\ pc' = "attemptEnd"
    /\ UNCHANGED <<now, JOBS, file, loc, params, yielded, sweep, fetch>>

FetchNext ==
    \/ HttpOk
    \/ HttpError
    \/ HttpUnexpected
    \/ FetchEnds

FetchSpec == FetchInit /\ [][FetchNext]_vars

\* ===================================================================== claims

\* C1: in one run of the generator no id is yielded twice, whatever pages the
\* upstream answers with (pages that overlap, repeat a record or come from a
\* retried attempt), every id carrying one timestamp.
C1_NoIdYieldedTwice ==
    \A i, j \in 1 .. Len(yielded) : i < j => yielded[i][1] # yielded[j][1]

\* C1 witness: after at least one yield an answer arrives all of whose records
\* repeat an id already yielded or already listed in the page.
C1_Witness ==
    /\ pc = "item"
    /\ Len(yielded) >= 1
    /\ answer.len = MaxPageLen
    /\ answer.repeated = answer.len

\* C2: every yielded timestamp lies in the requested window [start, end], also
\* when the upstream answers with records outside it, and so do the newest and
\* oldest timestamps run_scrape_job tracks and the dates it reports.
C2_YieldedInsideWindow ==
    LET lo == MinTs(loc.start_day)
        hi == MaxTs(loc.end_day)
        Inside(ts) == ts = None \/ (lo <= ts /\ ts <= hi)
    IN  /\ \A i \in 1 .. Len(yielded) :
            /\ gen.after_ts <= yielded[i][2] /\ yielded[i][2] <= gen.before_ts
            /\ Inside(yielded[i][2])
        /\ Inside(loc.newest_dt_included)
        /\ Inside(loc.oldest_dt_included)
        /\ (JobId \in DOMAIN JOBS /\ JOBS[JobId].state = "done") =>
            \A d \in {JOBS[JobId].from_date, JOBS[JobId].to_date} :
                d = None \/ (loc.start_day <= d /\ d <= loc.end_day)

\* C2 witness: an answer holding records outside the window, of which the job
\* still yields a record, after its coverage has begun.
C2_Witness ==
    /\ pc = "item"
    /\ answer.outside > 0
    /\ gen.data # <<>>
    /\ loc.oldest_dt_included # None

\* C3: at most max_results items are yielded; every page request asks for at
\* least one record, at most a page and at most what is left of the cap, and
\* so is issued only while fewer than max_results items have been yielded.
C3_CapRespected ==
    /\ Len(yielded) <= gen.max_results
    /\ gen.emitted = Len(yielded)
    /\ params # NoParams =>
        /\ params.size >= 1
        /\ params.size <= PUSHSHIFT_PAGE_SIZE
        /\ params.emitted + params.size <= gen.max_results
        /\ params.size = PUSHSHIFT_PAGE_SIZE \/ params.emitted + params.size = gen.max_results

\* C3 witness: one record is left of the cap, one is asked for, and the answer
\* holds more records to yield than that.
C3_Witness ==
    /\ pc = "item"
    /\ params.size = 1
    /\ params.emitted + 1 = gen.max_results
    /\ Len(gen.data) > 1

\* The job's registry entry, when it has one.
Listed == JobId \in DOMAIN JOBS
Job == JOBS[JobId]

\* C4 (as claimed): when the enumeration has stopped at the cap, the job is
\* reported done with cap_hit set, whatever the hydrations did.
C4_CapHitReported ==
    (pc = "done" /\ Listed /\ gen.emitted >= gen.max_results) =>
        (Job.state = "done" /\ Job.cap_hit)

NonIncreasing ==
    \A i, j \in 1 .. Len(yielded) : i < j => yielded[i][2] >= yielded[j][2]

\* C5 (as claimed): the timestamps of successive yields never increase.
C5_NonIncreasing == NonIncreasing

\* C5 (amended): the timestamps of successive yields never increase when
\* every answer lists its records from newest to oldest and holds no record
\* newer than the `before` of its request.
C5_NonIncreasingInOrder == history.in_order => NonIncreasing

\* C5 witness: a run over two chunks and several pages, all in order, that has
\* yielded the cap.
C5_Witness ==
    /\ history.in_order
    /\ Len(yielded) = LISTING_CAP_POSTS_ONLY
    /\ gen.total_days = 2

\* C6 (as claimed): the gaps a done job reports are the summary of the
\* enumeration: the chunks it scanned and those of them that yielded nothing.
C6_GapsReported ==
    (Listed /\ Job.state = "done") =>
        (Job.message[3] = gen.empty_days /\ Job.message[4] = gen.total_days)

\* C7 (as claimed): when every request of the run has failed on every mirror,
\* the job ends in error with no data row and a message carrying the cause.
C7_AllFailedEndsInError ==
    (history.all_failed /\ pc \in {"done", "error"} /\ Listed) =>
        /\ Job.state = "error"
        /\ Job.message[1] = "failed"
        /\ file.rows = <<>>

\* C7 (amended): when every request of the run has failed on every mirror, a
\* job whose setup succeeded ends done, never in error, with no data row, a
\* count of 0 and no covered date; and the entry of a done job is not
\* changed any more until the sweep removes it.
C7_AllFailedEndsDone ==
    /\ [](  (history.all_failed /\ file.header) =>
              /\ Listed => Job.state # "error"
              /\ yielded = <<>>
              /\ file.rows = <<>>
              /\ (pc = "done" /\ Listed) =>
                    /\ Job.state = "done"
                    /\ Job.count = 0
                    /\ Job.message[1] = "Finished"
                    /\ Job.from_date = None /\ Job.to_date = None  )
    /\ [][ (Listed /\ Job.state = "done" /\ JobId \in DOMAIN JOBS') =>
              JOBS'[JobId] = JOBS[JobId] ]_vars

\* C7 witness: a done job all of whose requests failed, over a window of two
\* chunks.
C7_Witness ==
    /\ history.all_failed
    /\ pc = "done"
    /\ Listed
    /\ Job.state = "done"
    /\ gen.total_days = 2

\* C8: the progress of a job never decreases, is at most 99 while the job is
\* queued, running or in error, and is 100 only when the job is done.
C8_Progress ==
    /\ [](  Listed =>
              /\ Job.progress \in 0 .. 100
              /\ Job.state \in {"queued", "running", "error"} => Job.progress <= 99
              /\ Job.progress = 100 => Job.state = "done"  )
    /\ [][ (Listed /\ JobId \in DOMAIN JOBS') =>
              JOBS'[JobId].progress >= Job.progress ]_vars

\* C8 witness: a running job that has counted as many posts as its cap, after
\* an earlier update, and reports 99.
C8_Witness ==
    /\ Listed
    /\ Job.state = "running"
    /\ Job.progress = 99
    /\ loc.count = LISTING_CAP_POSTS_ONLY
    /\ loc.count = 2 * PROGRESS_EVERY

\* C9: the state of an entry changes only from queued to running and from
\* running to done or to error; an entry is created queued.
C9_Lifecycle ==
    /\ [][ (Listed /\ JobId \in DOMAIN JOBS') =>
              \/ JOBS'[JobId].state = Job.state
              \/ <<Job.state, JOBS'[JobId].state>> \in
                    {<<"queued", "running">>, <<"running", "done">>,
                     <<"running", "error">>} ]_vars
    /\ [][ (~Listed /\ JobId \in DOMAIN JOBS') =>
              JOBS'[JobId].state = "queued" ]_vars

\* C9 witness: an entry in error whose job had written its header.
C9_Witness ==
    /\ Listed
    /\ Job.state = "error"
    /\ file.header

\* C10 (as claimed): once the sweep has removed the entry of a job, the
\* artifact of the job is not in storage.
C10_ReclaimedArtifactRemoved ==
    (pc # "none" /\ ~Listed) => ~file.exists

\* C11 (as claimed): whenever the registry lists the job as done, its
\* artifact is closed, is in storage, and holds its header.
C11_DoneArtifactReadable ==
    (Listed /\ Job.state = "done") =>
        (file.exists /\ file.closed /\ file.header)

\* C12: once the sweep has removed the entry of the job, the registry never
\* lists the job again: no update of its worker (running, progress, done or
\* error), found or dropped, creates an entry.
C12_ReclaimedStaysUnlisted ==
    /\ [][ (pc # "none" /\ ~Listed) => JobId \notin DOMAIN JOBS' ]_vars
    /\ [](history.dropped => ~Listed)

\* C12 witness: the worker has ended its job, done with rows written, after
\* an update of it found the entry removed.
C12_Witness ==
    /\ history.dropped
    /\ pc = "done"
    /\ file.rows # <<>>
    /\ ~Listed

\* The ids whose rows are in the artifact.
Written == {file.rows[i] : i \in 1 .. Len(file.rows)}

\* C13: a step in which an enumerated id is skipped (yielded, none of its rows
\* written) leaves the registry entry and the count alone and the loop goes
\* on with the next id, or ends as the enumeration has ended; no step of the
\* loop over the ids moves the job to error, and the job whose loop has ended
\* is reported done; and the count, also the one a done job reports, is the
\* number of ids whose rows were written.
C13_SkipGoesOn ==
    /\ [][ (pc = "item" /\ Len(yielded') = Len(yielded) + 1
                /\ file'.rows = file.rows) =>
              /\ JOBS' = JOBS
              /\ loc'.count = loc.count
              /\ \/ pc' = "item" /\ ~loc'.draining /\ gen'.data = Tail(gen.data)
                 \/ pc' = "finish" /\ gen'.emitted >= gen'.max_results ]_vars
    /\ [][ (pc = "item" /\ Listed /\ JobId \in DOMAIN JOBS') =>
              JOBS'[JobId].state = Job.state ]_vars
    /\ [][ (pc = "finish" /\ pc' # pc /\ JobId \in DOMAIN JOBS') =>
              (pc' = "done" /\ JOBS'[JobId].state = "done") ]_vars
    /\ [](  /\ loc.count = Cardinality(Written)
            /\ Written \subseteq YieldedIds
            /\ (Listed /\ Job.state = "done") => Job.count = Cardinality(Written)  )

\* C13 witness: a job reported done that skipped an id and wrote the rows of
\* an id enumerated after it.
C13_Witness ==
    /\ Listed
    /\ Job.state = "done"
    /\ \E i, j \in 1 .. Len(yielded) :
        /\ i < j
        /\ yielded[i][1] \notin Written
        /\ yielded[j][1] \in Written

\* The timestamps of the ids whose rows are in the artifact.
WrittenTs == {TsOf(i) : i \in Written}
Newest(S) == IF S = {} THEN None ELSE CHOOSE t \in S : \A u \in S : u <= t
Oldest(S) == IF S = {} THEN None ELSE CHOOSE t \in S : \A u \in S : t <= u

\* C14 (as claimed): the coverage a done job reports is the date of the
\* newest and of the oldest item whose rows are in the artifact; a skipped id
\* does not count.
C14_CoverageOfWritten ==
    (Listed /\ Job.state = "done") =>
        /\ Job.from_date = DateOf(Newest(WrittenTs))
        /\ Job.to_date = DateOf(Oldest(WrittenTs))

\* C15 (as claimed): the mutations of the registry exclude one another: the
\* sweep never removes an entry while a call of safe_set holds JOBS_LOCK
\* between its test of membership and its update.
C15_MutationsSerialized == ~history.raced

\* The chunks begun so far that hold the second t.
ChunksOf(t) ==
    {k \in 1 .. Len(history.chunks) :
        history.chunks[k][1] <= t /\ t <= history.chunks[k][2]}

\* C16: the chunks of a run lie in the window and span at most
\* DAILY_CHUNK_SECONDS seconds each; the first ends at the end of the window
\* and each next one ends one second before the start of the one before it;
\* no second of the window lies in two chunks, and when the enumeration has
\* ended below the cap every second of the window lies in one chunk.
C16_ChunksPartitionWindow ==
    LET C == history.chunks
    IN  /\ \A k \in 1 .. Len(C) :
            /\ gen.after_ts <= C[k][1]
            /\ C[k][1] <= C[k][2]
            /\ C[k][2] <= gen.before_ts
            /\ C[k][2] - C[k][1] + 1 <= DAILY_CHUNK_SECONDS
            /\ k = 1 => C[k][2] = gen.before_ts
            /\ k > 1 => C[k][2] = C[k - 1][1] - 1
        /\ Len(C) = gen.total_days
        /\ \A t \in gen.after_ts .. gen.before_ts : Cardinality(ChunksOf(t)) <= 1
        /\ (pc \in {"finish", "done"} /\ gen.emitted < gen.max_results) =>
            \A t \in gen.after_ts .. gen.before_ts : Cardinality(ChunksOf(t)) = 1

\* C16 witness: the enumeration has ended below the cap over a window of more
\* than one chunk, having yielded from the oldest of its chunks.
C16_Witness ==
    /\ pc = "finish"
    /\ gen.emitted < gen.max_results
    /\ Len(history.chunks) > 1
    /\ \E i \in 1 .. Len(yielded) :
            yielded[i][2] <= history.chunks[Len(history.chunks)][2]

\* The positions of the worker inside the attempts of one chunk.
InChunk == {"attempt", "page", "item", "attemptEnd"}

\* The timestamps yielded so far from the chunk the generator is in; all of
\* them come from one attempt, as an attempt that yields is the last of its
\* chunk.
YieldedOfChunk ==
    {yielded[i][2] : i \in {k \in 1 .. Len(yielded) :
        gen.day_start_ts <= yielded[k][2] /\ yielded[k][2] <= gen.current_end_ts}}

\* C17: every attempt, the first and the later ones, begins paging with its
\* cursor at the upper end of the chunk, no id seen and no minimum; inside a
\* chunk the cursor never increases; and a page after which paging goes on
\* leaves the cursor one second before the oldest timestamp yielded in the
\* attempt.
C17_AttemptStartsAfresh ==
    /\ [][ (pc = "attempt" /\ pc' = "page") =>
              /\ gen'.cursor_before_ts = gen'.current_end_ts
              /\ gen'.day_fetched_ids = {}
              /\ gen'.min_seen_ts = None
              /\ YieldedOfChunk' = {} ]_vars
    /\ [][ (pc \in InChunk /\ pc' \in InChunk) =>
              gen'.cursor_before_ts <= gen.cursor_before_ts ]_vars
    /\ [][ (pc = "item" /\ pc' = "page") =>
              /\ YieldedOfChunk' # {}
              /\ gen'.cursor_before_ts = Oldest(YieldedOfChunk') - 1 ]_vars

\* C17 witness: the second attempt on a chunk, after a page of it that lets
\* paging go on.
C17_Witness ==
    /\ pc = "page"
    /\ gen.attempt = 1
    /\ gen.cursor_before_ts < gen.current_end_ts
    /\ gen.cursor_before_ts >= gen.day_start_ts

\* The positions of the worker at which the enumeration is over.
Over == {"finish", "done", "error", "raised"}

\* C18: the enumeration, once begun, comes to its end, whatever the upstream
\* answers; a page after which paging goes on has yielded an item, of the
\* chunk and not seen before in the attempt, and the count of yields stays
\* within the cap; a chunk gets at most PUSHSHIFT_DAILY_ATTEMPTS attempts,
\* and none after one that yielded; the end of the chunk decreases from chunk
\* to chunk until it is below the start of the window.
C18_EnumerationTerminates ==
    /\ (pc = "chunk") ~> (pc \in Over)
    /\ [][ (pc = "item" /\ pc' = "page") =>
              /\ gen.new_data_emitted >= 1
              /\ gen.emitted <= gen.max_results
              /\ \E i \in 1 .. Len(yielded) :
                    /\ yielded[i][1] \in gen.day_fetched_ids
                    /\ gen.day_start_ts <= yielded[i][2]
                    /\ yielded[i][2] <= gen.current_end_ts ]_vars
    /\ [][ (pc = "item" /\ gen.data = <<>> /\ gen.new_data_emitted = 0 /\ pc' # pc) =>
              pc' = "attemptEnd" ]_vars
    /\ [][ (pc = "attempt" /\ pc' = "page") =>
              /\ gen.attempt < PUSHSHIFT_DAILY_ATTEMPTS
              /\ ~gen.day_successful_data_fetch ]_vars
    /\ [](pc \in InChunk => gen.attempt <= PUSHSHIFT_DAILY_ATTEMPTS)
    /\ [][ (pc = "chunkEnd" /\ pc' # pc) =>
              gen'.current_end_ts < gen.current_end_ts ]_vars
    /\ [][ (pc = "chunk" /\ pc' = "finish") =>
              (gen.current_end_ts < gen.after_ts \/ gen.emitted >= gen.max_results) ]_vars

\* C18 witness: the enumeration is over, below the cap, having yielded and
\* having given up a chunk all of whose attempts yielded nothing, though the
\* upstream answered.
C18_Witness ==
    /\ pc = "finish"
    /\ gen.emitted < gen.max_results
    /\ gen.empty_days >= 1
    /\ ~history.all_failed
    /\ yielded # <<>>

\* C19 (as claimed): when every request was answered as a reliable upstream
\* answers it and the enumeration has ended below the cap, every item of the
\* archive with a timestamp in the window has been yielded.
C19_Complete ==
    (history.reliable /\ pc \in {"finish", "done"} /\ gen.emitted < gen.max_results) =>
        \A i \in 1 .. MaxId :
            (gen.after_ts <= TsOf(i) /\ TsOf(i) <= gen.before_ts) => i \in YieldedIds

\* The calls of session.get made to the mirror b, in order.
CallsTo(b) == SelectSeq(fetch.calls, LAMBDA c : c[1] = b)

\* The mirror b has failed: each call to it failed, and it used up its
\* PUSHSHIFT_MAX_RETRIES + 1 attempts ...
Exhausted(b) ==
    /\ Len(CallsTo(b)) = PUSHSHIFT_MAX_RETRIES + 1
    /\ \A k \in 1 .. Len(CallsTo(b)) : CallsTo(b)[k][2] = "error"

\* ... or its last call raised an exception that is not retried.
GivenUp(b) ==
    /\ Len(CallsTo(b)) \in 1 .. PUSHSHIFT_MAX_RETRIES + 1
    /\ \A k \in 1 .. Len(CallsTo(b)) - 1 : CallsTo(b)[k][2] = "error"
    /\ CallsTo(b)[Len(CallsTo(b))][2] \in {"error", "unexpected"}
    /\ CallsTo(b)[Len(CallsTo(b))][2] = "error" =>
            Len(CallsTo(b)) = PUSHSHIFT_MAX_RETRIES + 1

\* What C20 says of one page request, for a given sense HasFailed(_) of `the
\* mirror has failed all of its attempts`: the calls go to the mirrors in the
\* configured order, at most PUSHSHIFT_MAX_RETRIES + 1 to each; a mirror is
\* called only after every mirror before it has failed; a call that succeeds
\* is the last call and its response is the answer used; the request is
\* without answer only when every mirror has failed, and then the attempt on
\* the chunk ends and the job keeps running.
MirrorsInOrder(HasFailed(_)) ==
    LET C == fetch.calls
    IN  /\ \A k \in 1 .. Len(C) : C[k][1] \in PUSHSHIFT_BASE_URLS
        /\ \A k \in 1 .. Len(C) - 1 : C[k][1] <= C[k + 1][1]
        /\ \A b \in PUSHSHIFT_BASE_URLS : Len(CallsTo(b)) <= PUSHSHIFT_MAX_RETRIES + 1
        /\ \A b \in PUSHSHIFT_BASE_URLS :
                CallsTo(b) # <<>> => \A a \in 1 .. b - 1 : HasFailed(a)
        /\ \A k \in 1 .. Len(C) :
                C[k][2] = "ok" =>
                    (k = Len(C) /\ fetch.left /\ fetch.got /\ fetch.j = C[k][3])
        /\ fetch.got => (C # <<>> /\ C[Len(C)][2] = "ok")
        /\ (fetch.left /\ ~fetch.got) => \A b \in PUSHSHIFT_BASE_URLS : HasFailed(b)
        /\ (fetch.left /\ ~fetch.got /\ pc # "page") =>
                (pc = "attemptEnd" /\ Job.state = "running")

\* C20 (as claimed): the mirrors are tried in order, and the next one only
\* after the one before failed all of its PUSHSHIFT_MAX_RETRIES + 1 attempts.
C20_MirrorsExhaustedInOrder == MirrorsInOrder(Exhausted)

\* C20 (amended): the mirrors are tried in order, and the next one only after
\* the one before failed all of its PUSHSHIFT_MAX_RETRIES + 1 attempts or
\* raised, at one of them, an exception that is not retried.
C20_MirrorsGivenUpInOrder == MirrorsInOrder(GivenUp)

\* C20 witness: a page request without answer that has ended the attempt, one
\* mirror having used up its attempts and one having raised at its first.
C20_Witness ==
    /\ pc = "attemptEnd"
    /\ fetch.left
    /\ ~fetch.got
    /\ \E a, b \in PUSHSHIFT_BASE_URLS :
        /\ Exhausted(a)
        /\ Len(CallsTo(b)) = 1
        /\ GivenUp(b)

====
